---- MODULE Spec2Model ----
(***************************************************************************)
(* Model of src/index.js: the image-generation backend.                    *)
(*                                                                         *)
(* The file holds two iterations of the server.  The basic one (lines      *)
(* 1-87) forwards a prompt to the inference provider and answers with the  *)
(* provider's result.  The gallery-backed one (lines 88-336) adds the      *)
(* multipart upload middleware, image/mask preprocessing, the object       *)
(* store and the gallery collection.  `variant` says which one is running. *)
(*                                                                         *)
(* Optional values (JavaScript null / undefined) are sequences: <<>> is    *)
(* the absent value and <<v>> the value v.                                 *)
(***************************************************************************)
EXTENDS Integers, Sequences, FiniteSets, TLC

\* Bounds of the model.
NReq == 2
MaxTime == 1

Requests == 1..NReq

Basic == "basic"
Backed == "gallery-backed"

VARIABLES
    variant,    \* which iteration of the server is running
    now,        \* the wall clock read by Date.now(), in milliseconds
    req,        \* per /api/generate request: its inputs, locals, position and response
    store,      \* the object store: key -> body
    gallery     \* the Gallery collection, in insertion order

vars == <<variant, now, req, store, gallery>>

Null == <<>>
Some(v) == <<v>>
IsNull(o) == o = <<>>
Val(o) == o[1]

-----------------------------------------------------------------------------
\* Inputs of a request.

\* originalname of an uploaded image, as a sequence of characters
FileNames == { <<"m", "y", " ", "r", "o", "o", "m", ".", "p", "n", "g">> }

Prompts == { <<"l", "o", "f", "t">> }

DimensionsObj == [width |-> 4, length |-> 5, height |-> 3]

\* the `dimensions` form field: a string that is, or is not, well-formed JSON
DimensionStrings ==
    { [wellFormed |-> TRUE, text |-> DimensionsObj],
      [wellFormed |-> FALSE, text |-> DimensionsObj] }

Optional(S) == {Null} \cup {Some(v) : v \in S}

\* What the body parsers leave on the request: req.body.prompt,
\* req.body.dimensions, req.files (multipart only), req.files.image[0],
\* req.files.mask[0].
Inputs(v) ==
    { i \in [ multipart : BOOLEAN,
              image : Optional(FileNames),
              mask : BOOLEAN,
              prompt : Optional(Prompts),
              dimensions : Optional(DimensionStrings) ] :
        /\ (~i.multipart) => (IsNull(i.image) /\ ~i.mask)
        /\ (v = Basic) => (~i.multipart /\ IsNull(i.dimensions)) }

-----------------------------------------------------------------------------
\* URLs and object keys.

S3Host == "bucket.s3.region.amazonaws.com"

S3Key(ts, filename) == [prefix |-> "genai-images/", ts |-> ts, filename |-> filename]

S3Url(key) == [scheme |-> "https", host |-> S3Host, key |-> key]

ProviderUrl ==
    [scheme |-> "https", host |-> "replicate.delivery",
     key |-> [prefix |-> "", ts |-> 0, filename |-> <<"out">>]]

DataUrl ==
    [scheme |-> "data", host |-> "image/jpeg;base64",
     key |-> [prefix |-> "", ts |-> 0, filename |-> <<"base64Image">>]]

Digit == <<"0", "1", "2", "3", "4", "5", "6", "7", "8", "9">>

RECURSIVE NatToStr(_)
NatToStr(n) ==
    IF n < 10 THEN <<Digit[n + 1]>>
    ELSE NatToStr(n \div 10) \o <<Digit[(n % 10) + 1]>>

OriginalFilename(originalname) == <<"original_">> \o originalname
MaskFilename(ts) == <<"mask_">> \o NatToStr(ts) \o <<".", "png">>
GeneratedFilename(ts) == <<"generated_">> \o NatToStr(ts) \o <<".", "jpg">>

Put(s, key, body) ==
    [k \in DOMAIN s \cup {key} |-> IF k = key THEN body ELSE s[k]]

-----------------------------------------------------------------------------
\* Results of the inference provider.

StringElem(u) == [type |-> "string", truthy |-> TRUE, url |-> u]
StreamElem == [type |-> "ReadableStream", truthy |-> TRUE, url |-> ProviderUrl]
ObjectElem == [type |-> "object", truthy |-> TRUE, url |-> ProviderUrl]
NullElem == [type |-> "object", truthy |-> FALSE, url |-> ProviderUrl]

\* the value replicate.run resolves to: null, or an array
Outputs ==
    { Null, Some(<<>>) } \cup
    { Some(<<e>>) : e \in {StringElem(ProviderUrl), StreamElem, ObjectElem, NullElem} }

\* output && output[0]
HasFirst(output) ==
    /\ ~IsNull(output)
    /\ Len(Val(output)) > 0
    /\ Val(output)[1].truthy

\* (mutant) the typeof test is missing
AnyFirstElement(output) ==
    /\ ~IsNull(output)
    /\ Len(Val(output)) > 0
    /\ Val(output)[1].truthy

\* output && output[0] && typeof output[0] === 'string'
ValidOutput(output) ==
    /\ HasFirst(output)
    /\ Val(output)[1].type = "string"

-----------------------------------------------------------------------------
\* The request record.

IdleRequest ==
    [ pc |-> "idle",
      in |-> [multipart |-> FALSE, image |-> Null, mask |-> FALSE,
              prompt |-> Null, dimensions |-> Null],
      isPromptOnly |-> FALSE,
      originalImageUrl |-> Null,
      maskImageUrl |-> Null,
      modelInput |-> <<>>,
      s3Key |-> Null,
      output |-> Null,
      s3ImageUrl |-> Null,
      newGalleryItem |-> Null,
      calls |-> <<>>,
      response |-> Null ]

Init ==
    /\ variant \in {Basic, Backed}
    /\ now = 0
    /\ req = [r \in Requests |-> IdleRequest]
    /\ store = <<>>
    /\ gallery = <<>>

\* res.status(status).json(body): the response is on the wire; the handler
\* returns and the request object and the handler's locals are gone.  What
\* the inference provider answered stays on record.
Respond(q, status, body) ==
    [IdleRequest EXCEPT !.pc = "responded",
                        !.output = q.output,
                        !.response = Some([status |-> status, body |-> body])]

\* the catch block of the handler
Failed(q, message) ==
    Respond(q, 500, [error |-> "Failed to generate design", details |-> message])

Tick ==
    /\ now < MaxTime
    /\ now' = now + 1
    /\ UNCHANGED <<variant, req, store, gallery>>

\* A request arrives; requests are numbered in order of arrival.
Receive(r) ==
    /\ req[r].pc = "idle"
    /\ r > 1 => req[r - 1].pc # "idle"
    /\ \E i \in Inputs(variant) :
         req' = [req EXCEPT ![r] = [@ EXCEPT !.pc = "received", !.in = i]]
    /\ UNCHANGED <<variant, now, store, gallery>>

-----------------------------------------------------------------------------
\* The gallery-backed handler of POST /api/generate (lines 164-317).

\* the multipart middleware rejects the request (file too large, unexpected
\* field, malformed body): it passes the error to next(), the handler never
\* runs and the framework's default error handler answers.
MulterError(r) ==
    /\ variant = Backed
    /\ req[r].pc = "received"
    /\ req[r].in.multipart
    /\ req' = [req EXCEPT ![r] = Respond(@, 500, [html |-> "MulterError"])]
    /\ UNCHANGED <<variant, now, store, gallery>>

JSONParse(s) == IF s.wellFormed THEN Some(s.text) ELSE Null

\* the template literal of lines 198-199
EnhancedPrompt(prompt, dimensionsObj) ==
    [ instructions |-> IF IsNull(prompt) THEN <<"undefined">> ELSE Val(prompt),
      trigger |-> "INTR",
      room |-> dimensionsObj ]

ModelInput(enhancedPrompt) ==
    [ prompt |-> enhancedPrompt,
      negative_prompt |-> "bad quality, low quality, blurry",
      num_inference_steps |-> 50,
      guidance_scale |-> 10,
      prompt_strength |-> 1,
      denoising_strength |-> "0.75",
      scheduler |-> "DPMSolverMultistep",
      num_outputs |-> 1,
      aspect_ratio |-> "16:9",
      lora_scale |-> "0.7",
      output_format |-> "jpg",
      controlnet_conditioning_scale |-> "0.5",
      controlnet_type |-> "depth" ]

Delete(f, keys) == [k \in DOMAIN f \ keys |-> f[k]]

\* (mutant) the conditioning keys stay in the input
PromptOnlyInputConditioned(modelInput) ==
    Delete(modelInput, {"image", "mask"})

\* lines 263-266
PromptOnlyInput(modelInput) ==
    Delete(modelInput, {"image", "mask", "controlnet_conditioning_scale", "controlnet_type"})

\* (mutant) the check of lines 188-190 is missing: reading the buffer of the
\* absent image throws and the catch block answers 500
HandlerBodyNoImageCheck(q) ==
    LET q1 == [q EXCEPT !.isPromptOnly = ~q.in.multipart]
        q2 == [q1 EXCEPT !.modelInput = ModelInput(EnhancedPrompt(q.in.prompt, Null))]
    IN  IF q.in.multipart /\ IsNull(q.in.image)
        THEN Failed(q1, "Cannot read properties of undefined (reading 'buffer')")
        ELSE IF q.in.multipart
        THEN [q2 EXCEPT !.calls = Append(@, "sharp"), !.pc = "sharp_image"]
        ELSE [q2 EXCEPT !.calls = Append(@, "replicate.run"), !.pc = "inferring"]

\* (mutant) the mode follows the image file, not req.files
IsPromptOnlyByImage(in) == IsNull(in.image)

Call(q, name, pc) == [q EXCEPT !.calls = Append(@, name), !.pc = pc]

\* if (req.files) ... else isPromptOnly = true
IsPromptOnly(in) == ~in.multipart

\* lines 165-273, up to the first await
HandlerBody(q) ==
    LET isPromptOnly == IsPromptOnly(q.in)
        originalImage == q.in.image
        q1 == [q EXCEPT !.isPromptOnly = isPromptOnly]
        parsed == IF IsNull(q.in.dimensions) THEN Null ELSE JSONParse(Val(q.in.dimensions))
        q2 == [q1 EXCEPT !.modelInput = ModelInput(EnhancedPrompt(q.in.prompt, parsed))]
    IN  IF ~isPromptOnly /\ IsNull(originalImage)
        THEN Respond(q1, 400, [error |-> "No image provided for image-based generation"])
        ELSE IF ~IsNull(q.in.dimensions) /\ IsNull(parsed)
        THEN Failed(q1, "Unexpected token in JSON")
        ELSE IF ~isPromptOnly
        THEN Call(q2, "sharp", "sharp_image")
        ELSE Call([q2 EXCEPT !.modelInput = PromptOnlyInput(@)], "replicate.run", "inferring")

HandlerStart(r) ==
    /\ variant = Backed
    /\ req[r].pc = "received"
    /\ req' = [req EXCEPT ![r] = HandlerBody(@)]
    /\ UNCHANGED <<variant, now, store, gallery>>

\* uploadToS3, line 151: the key is built when the call starts
StartUpload(q, filename, pc) ==
    Call([q EXCEPT !.s3Key = Some(S3Key(now, filename))], "uploadToS3", pc)

\* sharp(originalImage.buffer)...toBuffer() settles
SharpImageDone(r) ==
    /\ req[r].pc = "sharp_image"
    /\ \E ok \in BOOLEAN :
         req' = [req EXCEPT ![r] =
                   IF ok
                   THEN StartUpload(@, OriginalFilename(Val(@.in.image)), "upload_original")
                   ELSE Failed(@, "Input buffer contains unsupported image format")]
    /\ UNCHANGED <<variant, now, store, gallery>>

\* (mutant) the inference call starts before the mask is processed
AfterOriginalInferFirst(q) ==
    LET url == S3Url(Val(q.s3Key))
    IN  Call([q EXCEPT !.originalImageUrl = Some(url),
                       !.modelInput = Put(@, "image", url),
                       !.s3Key = Null],
             "replicate.run", "inferring")

\* lines 238-258: the original is stored; the mask, if any, is processed next
AfterOriginal(q) ==
    LET url == S3Url(Val(q.s3Key))
        q1 == [q EXCEPT !.originalImageUrl = Some(url),
                        !.modelInput = Put(@, "image", url),
                        !.s3Key = Null]
    IN  IF q.in.mask
        THEN Call(q1, "sharp", "sharp_mask")
        ELSE Call(q1, "replicate.run", "inferring")

\* s3Client.send(PutObjectCommand) of the original image settles
UploadOriginalDone(r) ==
    /\ req[r].pc = "upload_original"
    /\ \/ /\ store' = Put(store, Val(req[r].s3Key), [of |-> r, what |-> "original"])
          /\ req' = [req EXCEPT ![r] = AfterOriginal(@)]
       \/ /\ req' = [req EXCEPT ![r] = Failed([@ EXCEPT !.s3Key = Null], "S3 upload failed")]
          /\ UNCHANGED store
    /\ UNCHANGED <<variant, now, gallery>>

SharpMaskDone(r) ==
    /\ req[r].pc = "sharp_mask"
    /\ \E ok \in BOOLEAN :
         req' = [req EXCEPT ![r] =
                   IF ok
                   THEN StartUpload(@, MaskFilename(now), "upload_mask")
                   ELSE Failed(@, "Input buffer contains unsupported image format")]
    /\ UNCHANGED <<variant, now, store, gallery>>

AfterMask(q) ==
    LET url == S3Url(Val(q.s3Key))
    IN  Call([q EXCEPT !.maskImageUrl = Some(url),
                       !.modelInput = Put(@, "mask", url),
                       !.s3Key = Null],
             "replicate.run", "inferring")

UploadMaskDone(r) ==
    /\ req[r].pc = "upload_mask"
    /\ \/ /\ store' = Put(store, Val(req[r].s3Key), [of |-> r, what |-> "mask"])
          /\ req' = [req EXCEPT ![r] = AfterMask(@)]
       \/ /\ req' = [req EXCEPT ![r] = Failed([@ EXCEPT !.s3Key = Null], "S3 upload failed")]
          /\ UNCHANGED store
    /\ UNCHANGED <<variant, now, gallery>>

\* lines 275-280: the shape check, then the fetch starts
AfterInference(q, output) ==
    IF ValidOutput(output)
    THEN Call([q EXCEPT !.output = Some(output)], "fetch", "fetching")
    ELSE Failed([q EXCEPT !.output = Some(output)], "Invalid output format from Replicate API")

\* replicate.run settles: it rejects, or resolves to an output
InferenceDone(r) ==
    /\ variant = Backed
    /\ req[r].pc = "inferring"
    /\ \/ req' = [req EXCEPT ![r] = Failed(@, "Prediction failed")]
       \/ \E output \in Outputs : req' = [req EXCEPT ![r] = AfterInference(@, output)]
    /\ UNCHANGED <<variant, now, store, gallery>>

\* (mutant) a rejected fetch is swallowed: the handler ends without a response
FetchDoneUnanswered(r) ==
    /\ req[r].pc = "fetching"
    /\ \E outcome \in {"rejected", "not ok", "ok"} :
         req' = [req EXCEPT ![r] =
                   CASE outcome = "rejected" -> [IdleRequest EXCEPT !.pc = "failed"]
                     [] outcome = "not ok" -> Failed(@, "Failed to fetch image from Replicate API")
                     [] outcome = "ok" -> Call(@, "arrayBuffer", "reading")]
    /\ UNCHANGED <<variant, now, store, gallery>>

\* fetch(output[0]) settles: it rejects, or resolves with ok or not ok
FetchDone(r) ==
    /\ req[r].pc = "fetching"
    /\ \E outcome \in {"rejected", "not ok", "ok"} :
         req' = [req EXCEPT ![r] =
                   CASE outcome = "rejected" -> Failed(@, "request to replicate.delivery failed")
                     [] outcome = "not ok" -> Failed(@, "Failed to fetch image from Replicate API")
                     [] outcome = "ok" -> Call(@, "arrayBuffer", "reading")]
    /\ UNCHANGED <<variant, now, store, gallery>>

\* imageResponse.arrayBuffer() settles; then uploadToS3 of the generated image starts
ReadDone(r) ==
    /\ req[r].pc = "reading"
    /\ \E ok \in BOOLEAN :
         req' = [req EXCEPT ![r] =
                   IF ok
                   THEN StartUpload(@, GeneratedFilename(now), "upload_generated")
                   ELSE Failed(@, "Premature close")]
    /\ UNCHANGED <<variant, now, store, gallery>>

\* (mutant) the item does not take the URL of the original image
NewGalleryItemWithoutOriginal(r, q, s3ImageUrl) ==
    [ id |-> r,
      prompt |-> q.in.prompt,
      imageUrl |-> Some(s3ImageUrl),
      dimensions |-> q.in.dimensions,
      originalImage |-> Null,
      maskImage |-> q.maskImageUrl,
      createdAt |-> now ]

\* new Gallery({...}), lines 295-301; createdAt defaults to Date.now
NewGalleryItem(r, q, s3ImageUrl) ==
    [ id |-> r,
      prompt |-> q.in.prompt,
      imageUrl |-> Some(s3ImageUrl),
      dimensions |-> q.in.dimensions,
      originalImage |-> q.originalImageUrl,
      maskImage |-> q.maskImageUrl,
      createdAt |-> now ]

AfterGenerated(r, q) ==
    LET url == S3Url(Val(q.s3Key))
    IN  Call([q EXCEPT !.s3ImageUrl = Some(url),
                       !.s3Key = Null,
                       !.newGalleryItem = Some(NewGalleryItem(r, q, url))],
             "save", "saving")

\* (mutant) the handler goes on to the save without waiting for the upload
UploadGeneratedNotAwaited(r) ==
    /\ req[r].pc = "upload_generated"
    /\ req' = [req EXCEPT ![r] = AfterGenerated(r, @)]
    /\ UNCHANGED <<variant, now, store, gallery>>

UploadGeneratedDone(r) ==
    /\ req[r].pc = "upload_generated"
    /\ \/ /\ store' = Put(store, Val(req[r].s3Key), [of |-> r, what |-> "generated"])
          /\ req' = [req EXCEPT ![r] = AfterGenerated(r, @)]
       \/ /\ req' = [req EXCEPT ![r] = Failed([@ EXCEPT !.s3Key = Null], "S3 upload failed")]
          /\ UNCHANGED store
    /\ UNCHANGED <<variant, now, gallery>>

\* (mutant) prompt is not required
ValidWithoutPrompt(item) == ~IsNull(item.imageUrl)

\* gallerySchema: prompt and imageUrl are required
Valid(item) == ~IsNull(item.prompt) /\ ~IsNull(item.imageUrl)

\* (mutant) the response carries the provider's URL
SuccessWithProviderUrl(q) ==
    [IdleRequest EXCEPT !.pc = "responded",
                        !.output = q.output,
                        !.response = Some([status |-> 200,
                                           body |-> [outputUrl |-> Some(Val(Val(q.output))[1].url),
                                                     originalImage |-> q.originalImageUrl,
                                                     maskImage |-> q.maskImageUrl]])]

\* res.json of lines 304-308
Success(q) ==
    Respond(q, 200, [outputUrl |-> q.s3ImageUrl,
                     originalImage |-> q.originalImageUrl,
                     maskImage |-> q.maskImageUrl])

\* (mutant) the save writes over the latest document
ReplaceLatest(g, item) ==
    IF g = <<>> THEN <<item>> ELSE [g EXCEPT ![Len(g)] = item]

\* the insert of newGalleryItem.save(): one more document
Insert(g, item) == Append(g, item)

\* (mutant) a failed save takes the generated image out of the store again
SaveDoneWithRollback(r) ==
    /\ req[r].pc = "saving"
    /\ LET item == Val(req[r].newGalleryItem)
           key == Val(req[r].s3ImageUrl).key
       IN  \/ /\ Valid(item)
              /\ gallery' = Insert(gallery, item)
              /\ req' = [req EXCEPT ![r] = Success(@)]
              /\ UNCHANGED store
           \/ /\ req' = [req EXCEPT ![r] = Failed(@, "MongoNetworkError")]
              /\ store' = [k \in DOMAIN store \ {key} |-> store[k]]
              /\ UNCHANGED gallery
    /\ UNCHANGED <<variant, now>>

\* newGalleryItem.save() settles: validation, then the insert
SaveDone(r) ==
    /\ req[r].pc = "saving"
    /\ LET item == Val(req[r].newGalleryItem)
       IN  \/ /\ Valid(item)
              /\ gallery' = Insert(gallery, item)
              /\ req' = [req EXCEPT ![r] = Success(@)]
           \/ /\ ~Valid(item)
              /\ req' = [req EXCEPT ![r] = Failed(@, "Gallery validation failed")]
              /\ UNCHANGED gallery
           \/ /\ req' = [req EXCEPT ![r] = Failed(@, "MongoNetworkError")]
              /\ UNCHANGED gallery
    /\ UNCHANGED <<variant, now, store>>

-----------------------------------------------------------------------------
\* GET /api/gallery (lines 320-331) and GET /api/health (lines 23-25).

Injective(f) == \A i, j \in DOMAIN f : f[i] = f[j] => i = j

\* (mutant) the sort is missing: the documents come in insertion order
FindUnsorted(g) == {g}

\* (mutant) the sort runs oldest first
FindSortedAscending(g) ==
    { [i \in DOMAIN g |-> g[p[i]]] :
        p \in { f \in [DOMAIN g -> DOMAIN g] :
                  /\ \A i, j \in DOMAIN g : f[i] = f[j] => i = j
                  /\ \A i, j \in DOMAIN g : i < j => g[f[i]].createdAt <= g[f[j]].createdAt } }

\* Gallery.find().sort({createdAt: -1}): every document, newest first; the
\* order among documents of equal createdAt is the database's choice
FindSorted(g) ==
    { [i \in DOMAIN g |-> g[p[i]]] :
        p \in { f \in [DOMAIN g -> DOMAIN g] :
                  /\ Injective(f)
                  /\ \A i, j \in DOMAIN g : i < j => g[f[i]].createdAt >= g[f[j]].createdAt } }

\* what the handler can answer in the current state: the sorted documents
\* with 200, or 500 when the query fails
GalleryResponses ==
    { [status |-> 200, body |-> galleryItems] : galleryItems \in FindSorted(gallery) }
    \cup { [status |-> 500, body |-> <<>>] }

\* the whole handler: the query, then the response; it writes nothing
GalleryGet ==
    /\ variant = Backed
    /\ \E response \in GalleryResponses : UNCHANGED vars

\* answers 200 {status: 'ok'}; it reads and writes nothing
Health ==
    /\ UNCHANGED vars

-----------------------------------------------------------------------------
\* The basic handler of POST /api/generate (lines 37-72).

BasicInput(prompt) ==
    [aspect_ratio |-> "16:9", prompt |-> prompt, output_format |-> "jpg"]

BasicHandlerStart(r) ==
    /\ variant = Basic
    /\ req[r].pc = "received"
    /\ req' = [req EXCEPT ![r] =
                 Call([@ EXCEPT !.isPromptOnly = TRUE,
                                !.modelInput = BasicInput(req[r].in.prompt)],
                      "replicate.run", "inferring")]
    /\ UNCHANGED <<variant, now, store, gallery>>

\* lines 53-67
BasicAfterInference(q, output) ==
    LET q1 == [q EXCEPT !.output = Some(output)]
    IN  IF HasFirst(output)
        THEN IF Val(output)[1].type = "string"
             THEN Respond(q1, 200, [outputUrl |-> Some(Val(output)[1].url)])
             ELSE IF Val(output)[1].type = "ReadableStream"
             THEN Call(q1, "streamToBuffer", "streaming")
             ELSE Failed(q1, "Unexpected output format from Replicate API")
        ELSE Failed(q1, "No output received from Replicate API")

BasicInferenceDone(r) ==
    /\ variant = Basic
    /\ req[r].pc = "inferring"
    /\ \/ req' = [req EXCEPT ![r] = Failed(@, "Prediction failed")]
       \/ \E output \in Outputs : req' = [req EXCEPT ![r] = BasicAfterInference(@, output)]
    /\ UNCHANGED <<variant, now, store, gallery>>

\* streamToBuffer settles (lines 59-61)
BasicStreamDone(r) ==
    /\ req[r].pc = "streaming"
    /\ \E ok \in BOOLEAN :
         req' = [req EXCEPT ![r] =
                   IF ok
                   THEN Respond(@, 200, [outputUrl |-> Some(DataUrl)])
                   ELSE Failed(@, "stream error")]
    /\ UNCHANGED <<variant, now, store, gallery>>

-----------------------------------------------------------------------------
\* Specifications.

NextBacked ==
    \/ Tick
    \/ \E r \in Requests : Receive(r)
    \/ \E r \in Requests : MulterError(r)
    \/ \E r \in Requests : HandlerStart(r)
    \/ \E r \in Requests : SharpImageDone(r)
    \/ \E r \in Requests : UploadOriginalDone(r)
    \/ \E r \in Requests : SharpMaskDone(r)
    \/ \E r \in Requests : UploadMaskDone(r)
    \/ \E r \in Requests : InferenceDone(r)
    \/ \E r \in Requests : FetchDone(r)
    \/ \E r \in Requests : ReadDone(r)
    \/ \E r \in Requests : UploadGeneratedDone(r)
    \/ \E r \in Requests : SaveDone(r)
    \/ GalleryGet
    \/ Health

NextBasic ==
    \/ \E r \in Requests : BasicHandlerStart(r)
    \/ \E r \in Requests : BasicInferenceDone(r)
    \/ \E r \in Requests : BasicStreamDone(r)

Next == NextBacked \/ NextBasic

InitBacked == Init /\ variant = Backed

\* the gallery-backed server (lines 88-336)
Spec == InitBacked /\ [][NextBacked]_vars

\* either iteration of the server
SpecVariants == Init /\ [][Next]_vars

\* the steps of one request: the middleware, the handler up to its first
\* await, and the continuation after each awaited call
StepOf(r) ==
    \/ MulterError(r)
    \/ HandlerStart(r)
    \/ SharpImageDone(r)
    \/ UploadOriginalDone(r)
    \/ SharpMaskDone(r)
    \/ UploadMaskDone(r)
    \/ InferenceDone(r)
    \/ FetchDone(r)
    \/ ReadDone(r)
    \/ UploadGeneratedDone(r)
    \/ SaveDone(r)

\* the gallery-backed server when every awaited call settles and the event
\* loop runs every continuation that is ready
SpecLive == Spec /\ \A r \in Requests : WF_vars(StepOf(r))

-----------------------------------------------------------------------------
\* Shared vocabulary of the properties.

Responded(q) == q.pc = "responded"
Status(q) == Val(q.response).status
Body(q) == Val(q.response).body

\* request r is answered in this step
Answers(r) == ~Responded(req[r]) /\ Responded(req'[r])

GenerateError(body) ==
    /\ DOMAIN body = {"error", "details"}
    /\ body.error = "Failed to generate design"

ItemsOf(r) == {i \in DOMAIN gallery : gallery[i].id = r}
ObjectsOf(r) == {k \in DOMAIN store : store[k].of = r}

\* the `dimensions` field of the request parses, or is absent
DimensionsParse(in) == IsNull(in.dimensions) \/ Val(in.dimensions).wellFormed

-----------------------------------------------------------------------------
\* C1: a request handled in edit mode (req.files is set) that has no image
\* file is answered 400 with an error body by the first step of the handler:
\* no inference call, no upload and no gallery save was made for it, and the
\* object store and the gallery are untouched.
C1_EditWithoutImageRejected ==
    [][\A r \in Requests :
         (HandlerStart(r) /\ req[r].in.multipart /\ IsNull(req[r].in.image)) =>
             /\ req[r].calls = <<>>
             /\ Answers(r)
             /\ Status(req'[r]) = 400
             /\ DOMAIN Body(req'[r]) = {"error"}
             /\ ObjectsOf(r) = {} /\ ItemsOf(r) = {}
             /\ store' = store /\ gallery' = gallery]_vars

C1_Witness ==
    \E r \in Requests : Responded(req[r]) /\ Status(req[r]) = 400

\* C2 as claimed: edit mode exactly when an image file is uploaded, and a
\* request without an image file reaches the inference call in prompt-only
\* mode (unless its dimensions do not parse).
C2_ModeByImage ==
    [][\A r \in Requests :
         HandlerStart(r) =>
             /\ ~IsPromptOnly(req[r].in) <=> ~IsNull(req[r].in.image)
             /\ (IsNull(req[r].in.image) /\ DimensionsParse(req[r].in)) =>
                    (req'[r].pc = "inferring" /\ req'[r].isPromptOnly)]_vars

\* C2, amended: edit mode exactly when the request carries uploaded files
\* (req.files is set).  In edit mode a request without an image file is
\* rejected with 400 and one with an image file starts preprocessing; a
\* request without uploaded files is handled in prompt-only mode and goes on
\* to the inference call; in either mode dimensions that do not parse end the
\* request with 500 first.
C2_ModeByFiles ==
    [][\A r \in Requests :
         HandlerStart(r) =>
            LET in == req[r].in
                q == req'[r]
            IN  /\ ~IsPromptOnly(in) <=> in.multipart
                /\ (in.multipart /\ IsNull(in.image)) =>
                       (Responded(q) /\ Status(q) = 400)
                /\ (in.multipart /\ ~IsNull(in.image) /\ DimensionsParse(in)) =>
                       (q.pc = "sharp_image" /\ ~q.isPromptOnly /\ q.calls = <<"sharp">>)
                /\ (~in.multipart /\ DimensionsParse(in)) =>
                       (q.pc = "inferring" /\ q.isPromptOnly /\ q.calls = <<"replicate.run">>)
                /\ (~(in.multipart /\ IsNull(in.image)) /\ ~DimensionsParse(in)) =>
                       (Responded(q) /\ Status(q) = 500 /\ GenerateError(Body(q)))]_vars

C2_Witness ==
    \E r1, r2 \in Requests :
        /\ req[r1].pc = "sharp_image" /\ req[r1].in.multipart
        /\ req[r2].pc = "inferring" /\ req[r2].isPromptOnly /\ ~req[r2].in.multipart

-----------------------------------------------------------------------------
\* the inference call of the request has returned a result that is empty,
\* has no first element, or whose first element is not a string
MalformedOutput(q) ==
    /\ ~IsNull(q.output)
    /\ LET output == Val(q.output)
       IN  \/ IsNull(output)
           \/ Len(Val(output)) = 0
           \/ ~Val(output)[1].truthy
           \/ Val(output)[1].type # "string"

\* the result's first element is a ReadableStream
StreamOutput(q) ==
    /\ ~IsNull(q.output)
    /\ HasFirst(Val(q.output))
    /\ Val(Val(q.output))[1].type = "ReadableStream"

GeneratedObjectsOf(r) == {k \in ObjectsOf(r) : store[k].what = "generated"}

\* the request was answered 500 and nothing was fetched, uploaded or saved
\* for it after the inference call
RejectedAfterInference(r) ==
    /\ Responded(req[r])
    /\ Status(req[r]) = 500
    /\ GenerateError(Body(req[r]))
    /\ GeneratedObjectsOf(r) = {}
    /\ ItemsOf(r) = {}

\* C3 as claimed: in either iteration of the server a malformed inference
\* result ends the request with 500: nothing is fetched, uploaded or saved
\* and no other encoding of the result is accepted.
C3_MalformedOutputFails ==
    \A r \in Requests : MalformedOutput(req[r]) => RejectedAfterInference(r)

\* C3, amended: the gallery-backed handler answers 500 to every malformed
\* inference result and fetches, uploads and saves nothing.  The basic
\* handler answers 500 to an empty result and to a first element that is
\* neither a string nor a ReadableStream, but it accepts a ReadableStream:
\* the stream is read into a buffer and, unless reading fails, returned with
\* 200 as a base64 data URL.
C3_MalformedOutputFailsUnlessStream ==
    \A r \in Requests :
        MalformedOutput(req[r]) =>
            IF variant = Basic /\ StreamOutput(req[r])
            THEN \/ req[r].pc = "streaming"
                 \/ /\ Responded(req[r])
                    /\ \/ Status(req[r]) = 200 /\ Body(req[r]).outputUrl = Some(DataUrl)
                       \/ Status(req[r]) = 500 /\ GenerateError(Body(req[r]))
            ELSE RejectedAfterInference(r)

C3_Witness ==
    /\ variant = Backed
    /\ \E r \in Requests : MalformedOutput(req[r]) /\ RejectedAfterInference(r)

-----------------------------------------------------------------------------
\* C4 as claimed: whichever step of a request fails, upload handling
\* included, the request is answered 500 with the body
\* {error: "Failed to generate design", details}.
C4_EveryFailureReported ==
    \A r \in Requests :
        (Responded(req[r]) /\ Status(req[r]) = 500) => GenerateError(Body(req[r]))

-----------------------------------------------------------------------------
\* the calls of a request that was answered 200
SuccessfulCalls(in) ==
    (IF ~in.multipart THEN <<>>
     ELSE IF in.mask THEN <<"sharp", "uploadToS3", "sharp", "uploadToS3">>
     ELSE <<"sharp", "uploadToS3">>)
    \o <<"replicate.run", "fetch", "arrayBuffer", "uploadToS3", "save">>

\* C5: a request is answered at most once.  It is answered 200 only by the
\* step in which its gallery save succeeds, after its inference call, fetch
\* and upload of the generated image; the outputUrl of the 200 response is
\* the imageUrl of the GalleryItem it saved, the object-store URL under
\* which it uploaded the generated image.
C5_SingleResponseAfterSave ==
    [][\A r \in Requests :
         /\ Responded(req[r]) => req'[r] = req[r]
         /\ (Answers(r) /\ Status(req'[r]) = 200) =>
               LET q == req[r]
                   item == Val(q.newGalleryItem)
               IN  /\ q.pc = "saving"
                   /\ q.calls = SuccessfulCalls(q.in)
                   /\ ~MalformedOutput(q)
                   /\ gallery' = Append(gallery, item)
                   /\ item.id = r
                   /\ Body(req'[r]).outputUrl = item.imageUrl
                   /\ item.imageUrl = q.s3ImageUrl
                   /\ Val(item.imageUrl).host = S3Host
                   /\ Val(item.imageUrl).key \in DOMAIN store
                   /\ Val(item.imageUrl).key.filename[1] = "generated_"]_vars

C5_Witness ==
    \E r \in Requests :
        /\ Responded(req[r]) /\ Status(req[r]) = 200
        /\ \E i \in ItemsOf(r) : gallery[i].imageUrl = Body(req[r]).outputUrl

-----------------------------------------------------------------------------
\* the request that most recently saved its item and answered 200
LatestAnswered == gallery[Len(gallery)].id

AnsweredOk(r) == Responded(req[r]) /\ Status(req[r]) = 200

\* C6 as claimed: a gallery request made after a /api/generate request
\* answered 200, and before any later one completes, returns that request's
\* item as the first element.  (Stated for items of distinct createdAt only:
\* the order of items of equal createdAt is the database's choice, and the
\* claim fails without them.)
C6_LatestIsFirst ==
    (gallery # <<>> /\ \A i, j \in DOMAIN gallery :
                          i # j => gallery[i].createdAt # gallery[j].createdAt) =>
        \A response \in GalleryResponses :
            response.status = 200 => response.body[1].id = LatestAnswered

\* C6, amended: every gallery request answered 200 after a /api/generate
\* request saved its item and answered 200 returns a list that holds that
\* item, and the item is the first element whenever its createdAt is greater
\* than that of every other persisted item.
C6_SavedItemListed ==
    \A response \in GalleryResponses :
        response.status = 200 =>
            \A r \in Requests :
                AnsweredOk(r) =>
                    \E i \in DOMAIN response.body :
                        /\ response.body[i].id = r
                        /\ response.body[i].imageUrl = Body(req[r]).outputUrl
                        /\ (\A j \in DOMAIN response.body \ {i} :
                               response.body[j].createdAt < response.body[i].createdAt)
                           => i = 1

C6_Witness ==
    /\ \A r \in Requests : AnsweredOk(r)
    /\ \E response \in GalleryResponses :
         /\ response.status = 200
         /\ Len(response.body) = NReq
         /\ response.body[1].id = LatestAnswered
         /\ response.body[1].createdAt > response.body[2].createdAt

-----------------------------------------------------------------------------
\* C7 as claimed: no upload uses the key of an earlier upload, so no stored
\* object is ever overwritten.
C7_KeysNeverReused ==
    [][\A k \in DOMAIN store : k \in DOMAIN store' /\ store'[k] = store[k]]_vars

-----------------------------------------------------------------------------
ConditioningKeys == {"image", "mask", "controlnet_conditioning_scale", "controlnet_type"}

\* C8: while the inference call of a request is in flight, its input has
\* none of the image, mask and conditioning keys if the request is handled in
\* prompt-only mode; in edit mode its image is the URL under which the
\* request uploaded its processed original, and it has a mask, the URL of
\* the uploaded mask, exactly when the request supplied one.
C8_InputKeysFollowMode ==
    \A r \in Requests :
        req[r].pc = "inferring" =>
            LET q == req[r]
                input == q.modelInput
            IN  IF ~q.in.multipart
                THEN DOMAIN input \cap ConditioningKeys = {}
                ELSE /\ ~IsNull(q.in.image)
                     /\ "image" \in DOMAIN input
                     /\ Some(input.image) = q.originalImageUrl
                     /\ input.image.host = S3Host
                     /\ input.image.key \in DOMAIN store
                     /\ input.image.key.filename = OriginalFilename(Val(q.in.image))
                     /\ ("mask" \in DOMAIN input) <=> q.in.mask
                     /\ q.in.mask =>
                            /\ Some(input.mask) = q.maskImageUrl
                            /\ input.mask.key \in DOMAIN store
                            /\ input.mask.key.filename[1] = "mask_"

C8_Witness ==
    \E r1, r2 \in Requests :
        /\ req[r1].pc = "inferring" /\ req[r1].in.mask
        /\ req[r2].pc = "inferring" /\ ~req[r2].in.multipart

-----------------------------------------------------------------------------
\* C9: the gallery only grows and its documents never change.  The step
\* that answers a request 200 adds exactly one item, the request's own and
\* its first; a step that answers 400 or 500 adds none, and that request
\* has none; no other step touches the gallery.
C9_GalleryAppendOnly ==
    [][/\ Len(gallery') >= Len(gallery)
       /\ \A i \in DOMAIN gallery : gallery'[i] = gallery[i]
       /\ \A r \in Requests :
            Answers(r) =>
                IF Status(req'[r]) = 200
                THEN /\ Len(gallery') = Len(gallery) + 1
                     /\ gallery'[Len(gallery')].id = r
                     /\ ItemsOf(r) = {}
                ELSE /\ Status(req'[r]) \in {400, 500}
                     /\ gallery' = gallery
                     /\ ItemsOf(r) = {}
       /\ gallery' # gallery =>
            \E r \in Requests : Answers(r) /\ Status(req'[r]) = 200]_vars

C9_Witness ==
    /\ Len(gallery) = 1
    /\ \E r1, r2 \in Requests :
         /\ AnsweredOk(r1) /\ ItemsOf(r1) # {}
         /\ Responded(req[r2]) /\ Status(req[r2]) = 500 /\ ItemsOf(r2) = {}

-----------------------------------------------------------------------------
ItemsComplete(g) ==
    \A i \in DOMAIN g : ~IsNull(g[i].prompt) /\ ~IsNull(g[i].imageUrl)

-----------------------------------------------------------------------------
\* the stored objects that no persisted GalleryItem refers to
Referenced(g) ==
    { Val(u).key : u \in ({ g[i].imageUrl : i \in DOMAIN g }
                          \cup { g[i].originalImage : i \in DOMAIN g }
                          \cup { g[i].maskImage : i \in DOMAIN g }) \ {Null} }

Orphans == DOMAIN store \ Referenced(gallery)

\* C11: no step ever removes a stored object, and the step that answers a
\* request with an error (400 or 500) leaves the object store as it is, so
\* the objects the request uploaded before it failed stay in the store.
C11_NoRollback ==
    [][/\ \A k \in DOMAIN store : k \in DOMAIN store'
       /\ \A r \in Requests :
            (Answers(r) /\ Status(req'[r]) # 200) => store' = store]_vars

\* a save failed after the upload of the generated image, an inference
\* failed after the upload of the original, and the store holds objects no
\* GalleryItem refers to
C11_Witness ==
    \E r1, r2 \in Requests :
        /\ Responded(req[r1]) /\ Status(req[r1]) = 500
        /\ GenerateError(Body(req[r1]))
        /\ Body(req[r1]).details = "MongoNetworkError"
        /\ \E k \in GeneratedObjectsOf(r1) : k \in Orphans
        /\ Responded(req[r2]) /\ Status(req[r2]) = 500
        /\ GenerateError(Body(req[r2]))
        /\ Body(req[r2]).details = "Prediction failed"
        /\ \E k \in ObjectsOf(r2) : store[k].what = "original" /\ k \in Orphans

-----------------------------------------------------------------------------
\* how many times item x occurs in the list
Count(list, x) == Cardinality({i \in DOMAIN list : list[i] = x})

\* C12: every 200 response of GET /api/gallery holds exactly the persisted
\* GalleryItems, each as often as it is persisted and none left out, in an
\* order where createdAt never increases from one element to the next,
\* whatever the order in which the items were saved.
C12_ListsAllSorted ==
    \A response \in GalleryResponses :
        response.status = 200 =>
            /\ Len(response.body) = Len(gallery)
            /\ \A i \in DOMAIN gallery :
                   Count(response.body, gallery[i]) = Count(gallery, gallery[i])
            /\ \A i, j \in DOMAIN response.body :
                   i < j => response.body[i].createdAt >= response.body[j].createdAt

\* two items are persisted, the one saved first was created last, and the
\* gallery answers 200
C12_Witness ==
    /\ Len(gallery) = 2
    /\ gallery[1].createdAt > gallery[2].createdAt
    /\ \E response \in GalleryResponses :
         response.status = 200 /\ response.body = gallery

-----------------------------------------------------------------------------
\* C13: the step that saves a request's GalleryItem and answers it 200
\* gives the item and the response an originalImage exactly when the
\* request carried an image file and a maskImage exactly when it carried a
\* mask file (it is then an edit-mode request, and the mask was processed);
\* for a prompt-only request both are null.  No persisted item has a
\* maskImage without an originalImage.
C13_ImageFieldsFollowRequest ==
    [][/\ \A i \in DOMAIN gallery' :
            ~IsNull(gallery'[i].maskImage) => ~IsNull(gallery'[i].originalImage)
       /\ \A r \in Requests :
            (Answers(r) /\ Status(req'[r]) = 200) =>
                LET in == req[r].in
                    item == gallery'[Len(gallery')]
                    body == Body(req'[r])
                IN  /\ item.id = r
                    /\ ~IsNull(item.originalImage) <=> ~IsNull(in.image)
                    /\ ~IsNull(item.maskImage) <=> in.mask
                    /\ in.mask => (in.multipart /\ ~IsNull(in.image))
                    /\ IsPromptOnly(in) =>
                           (IsNull(item.originalImage) /\ IsNull(item.maskImage))
                    /\ body.originalImage = item.originalImage
                    /\ body.maskImage = item.maskImage
                    /\ ~IsNull(item.originalImage) =>
                           Val(item.originalImage).key.filename[1] = "original_"
                    /\ ~IsNull(item.maskImage) =>
                           Val(item.maskImage).key.filename[1] = "mask_"]_vars

\* an edit-mode request with a mask and a prompt-only request were both
\* answered 200 and their items are persisted
C13_Witness ==
    \E i, j \in DOMAIN gallery :
        /\ ~IsNull(gallery[i].originalImage) /\ ~IsNull(gallery[i].maskImage)
        /\ IsNull(gallery[j].originalImage) /\ IsNull(gallery[j].maskImage)
        /\ AnsweredOk(gallery[i].id) /\ AnsweredOk(gallery[j].id)

-----------------------------------------------------------------------------
\* the position of a request whose latest call is the n-th of its calls
PcAfter(in, n) ==
    LET done == n - (Len(SuccessfulCalls(in)) - 5)
    IN  CASE done = 1 -> "inferring"
          [] done = 2 -> "fetching"
          [] done = 3 -> "reading"
          [] done = 4 -> "upload_generated"
          [] done = 5 -> "saving"
          [] OTHER -> IF n = 1 THEN "sharp_image"
                      ELSE IF n = 2 THEN "upload_original"
                      ELSE IF n = 3 THEN "sharp_mask"
                      ELSE "upload_mask"

Times(calls, name) == Cardinality({i \in DOMAIN calls : calls[i] = name})

\* the calls the request has made are the first calls of the fixed order,
\* the latest one is the one in flight, and what the earlier ones produced
\* is there
InOrder(q, s) ==
    (q.pc \notin {"idle", "received", "responded"}) =>
        LET n == Len(q.calls)
            order == SuccessfulCalls(q.in)
        IN  /\ n >= 1 /\ n <= Len(order)
            /\ q.calls = SubSeq(order, 1, n)
            /\ q.pc = PcAfter(q.in, n)
            /\ "prompt" \in DOMAIN q.modelInput
            /\ Times(q.calls, "replicate.run") <= 1
            /\ Times(q.calls, "fetch") <= 1
            /\ Times(q.calls, "save") <= 1
            /\ (q.in.multipart /\ n > 2) =>
                   (~IsNull(q.originalImageUrl) /\ Val(q.originalImageUrl).key \in DOMAIN s)
            /\ (q.in.mask /\ n > 4) =>
                   (~IsNull(q.maskImageUrl) /\ Val(q.maskImageUrl).key \in DOMAIN s)
            /\ q.pc \in {"fetching", "reading", "upload_generated", "saving"} =>
                   (~IsNull(q.output) /\ ~MalformedOutput(q))
            /\ q.pc = "saving" =>
                   (~IsNull(q.s3ImageUrl) /\ Val(q.s3ImageUrl).key \in DOMAIN s)

\* C14: the calls of a request are made one after another in the order
\* compose, [edit mode: preprocess and upload the original, then preprocess
\* and upload the mask if there is one], infer, fetch, upload the generated
\* image, save, respond.  A step makes at most one new call, and only when
\* the call before it has returned successfully; the inference call, the
\* fetch and the save are made at most once.  The 200 response comes after
\* all of them.
C14_StepsInOrder ==
    [][\A r \in Requests :
         /\ InOrder(req'[r], store')
         /\ (req[r].pc # "idle" /\ ~Responded(req'[r])) =>
                \/ req'[r].calls = req[r].calls
                \/ /\ Len(req'[r].calls) = Len(req[r].calls) + 1
                   /\ SubSeq(req'[r].calls, 1, Len(req[r].calls)) = req[r].calls
         /\ (Answers(r) /\ Status(req'[r]) = 200) =>
                req[r].calls = SuccessfulCalls(req[r].in)]_vars

\* a request with an image and a mask has made every call and its save is
\* in flight
C14_Witness ==
    \E r \in Requests :
        /\ req[r].pc = "saving"
        /\ req[r].in.mask
        /\ Len(req[r].calls) = 9
        /\ req[r].calls = SuccessfulCalls(req[r].in)

-----------------------------------------------------------------------------
\* the alphanumeric characters and the underscore
WordChars ==
    { "a", "b", "c", "d", "e", "f", "g", "h", "i", "j", "k", "l", "m",
      "n", "o", "p", "q", "r", "s", "t", "u", "v", "w", "x", "y", "z",
      "A", "B", "C", "D", "E", "F", "G", "H", "I", "J", "K", "L", "M",
      "N", "O", "P", "Q", "R", "S", "T", "U", "V", "W", "X", "Y", "Z",
      "0", "1", "2", "3", "4", "5", "6", "7", "8", "9", "_" }

\* the pieces of a filename that are written as whole words in the model
Words == { "original_", "mask_", "generated_", "png", "jpg" }

Sanitized(filename) ==
    \A i \in DOMAIN filename : filename[i] \in WordChars \cup Words

\* C15 as claimed: the filename part of the key of every stored object has
\* only alphanumeric characters and underscores.
C15_FilenamesSanitized ==
    \A k \in DOMAIN store : Sanitized(k.filename)

-----------------------------------------------------------------------------
\* the URL is the URL of a stored object
Stored(url) ==
    /\ url.scheme = "https"
    /\ url.host = S3Host
    /\ url.key \in DOMAIN store

-----------------------------------------------------------------------------
InFlight(q) == q.pc \notin {"idle", "responded"}

\* C17: when every external call settles, every request that was received
\* is answered, and answered once: an answered request takes no further
\* step.  A request in flight can take its next step in every state,
\* whatever the positions of the other requests.
C17_EveryRequestAnswered ==
    /\ \A r \in Requests : InFlight(req[r]) ~> Responded(req[r])
    /\ [][\A r \in Requests :
            /\ Responded(req[r]) => req'[r] = req[r]
            /\ InFlight(req'[r]) => (ENABLED StepOf(r))']_vars

\* both requests were in progress together (each has uploaded) and both
\* were answered, one with 200 and one with 500
C17_Witness ==
    /\ \A r \in Requests : Responded(req[r]) /\ ObjectsOf(r) # {}
    /\ \E r1, r2 \in Requests :
         /\ Status(req[r1]) = 200
         /\ Status(req[r2]) = 500 /\ GenerateError(Body(req[r2]))

====
